---- MODULE Spec2Model ----
(***************************************************************************)
(* A model of graphspec.py: the Graph aggregate, the statement handlers    *)
(* (include_statement and what it calls), from_lines, render_dot with      *)
(* render_subgraph, get_graph_data and the statement scanner.              *)
(*                                                                         *)
(* Representation of the program's text values:                            *)
(*  - identifiers, labels and comments are strings; "" stands for a key    *)
(*    that is absent (the handlers test `statement.get(key)`, so an empty  *)
(*    string and an absent key are treated alike by the code);             *)
(*  - the `data` of a statement is the sequence of its parts: the tokens   *)
(*    re.split(' *, *', data) gives for a subgraph statement, the          *)
(*    fragments data.strip().split(";") gives for an edge attr statement,  *)
(*    the groups of the style regular expression for a style directive,    *)
(*    and the opaque attribute text otherwise.  <<>> is the empty string;  *)
(*  - attribute text is a sequence of fragments and string concatenation   *)
(*    is sequence concatenation;                                           *)
(*  - the document render_dot returns is the sequence of its lines, each   *)
(*    line a sequence of strings.                                          *)
(***************************************************************************)
EXTENDS Naturals, Integers, Sequences, FiniteSets, TLC

VARIABLES
    graph,      \* the Graph instance (its fields, see Graph below)
    pc,         \* from_lines: "building", "returned" or "aborted"
    n,          \* number of statements handed to include_statement
    last,       \* the statement handed to the latest include_statement
    error,      \* the exception the latest include_statement raised, or ""
    doc,        \* outcome of the latest render_dot call
    renders,    \* number of render_dot calls made
    dict_order, \* iteration order of the interpreter's dicts over the node ids
    lines,      \* order study: the statements given to from_lines
    shuffled,   \* order study: the same statements in another order
    built,      \* order study: outcome of from_lines(lines)
    built2,     \* order study: outcome of from_lines(shuffled)
    line,       \* scanner: the line being scanned (sequence of characters)
    loc,        \* scanner: scanString's position in the line
    found,      \* scanner: the statements found so far
    spans,      \* scanner: where in the line each statement found stands
    given       \* scanner: the parts the line was built from

vars == <<graph, pc, n, last, error, doc, renders, dict_order,
          lines, shuffled, built, built2, line, loc, found, spans, given>>

graphVars == <<graph, pc, n, last, error, doc, renders, dict_order>>
orderVars == <<lines, shuffled, built, built2>>
scanVars == <<line, loc, found, spans, given>>

----------------------------------------------------------------------------
(* Bounds of the model *)

MaxStatements == 3
MaxRenders == 2
MaxDepth == 4

Nodes == {"a", "b", "c"}

----------------------------------------------------------------------------
(* Statements: the records search_for_statements returns *)

Statement(start, end, node, directive, label, comment, data) ==
    [start |-> start, end |-> end, node |-> node, directive |-> directive,
     label |-> label, comment |-> comment, data |-> data]

NoStatement == Statement("", "", "", "", "", "", <<>>)

\* `'start' in statement`
IsEdgeShaped(st) == st.start # ""

----------------------------------------------------------------------------
(* The Graph aggregate *)

\* Graph.__init__
Graph(include_everything) ==
    [node |-> <<>>,                 \* g.node: node id -> {subgraph, label}
     edge |-> <<>>,                 \* g.succ: <<start, end>> -> metadata
     include_everything |-> include_everything,
     graph_attrs |-> <<>>,
     node_attrs |-> <<>>,           \* node id -> attribute text
     edge_attrs |-> <<>>,           \* <<start, end>> -> attribute fragments
     path_styles |-> <<>>,
     ascendant_styles |-> <<>>,
     descendant_styles |-> <<>>]

NoNodeData == [subgraph |-> FALSE, label |-> ""]
NoEdgeData == [label |-> "", comment |-> "", is_subgraph_relation |-> FALSE]

\* dict assignment d[k] = v
Put(d, k, v) == [x \in (DOMAIN d) \cup {k} |-> IF x = k THEN v ELSE d[x]]

\* dict.update(**attr) on an edge's metadata: only the keys passed are set
UpdateEdgeData(old, attr) ==
    [label |-> IF attr.label # "" THEN attr.label ELSE old.label,
     comment |-> IF attr.comment # "" THEN attr.comment ELSE old.comment,
     is_subgraph_relation |->
        attr.is_subgraph_relation \/ old.is_subgraph_relation]

\* a mutant of add_edge: the metadata of an existing edge is replaced
add_edge_replacing(G, u, v, attr) ==
    LET withU == IF u \in DOMAIN G.node THEN G.node ELSE Put(G.node, u, NoNodeData)
        withV == IF v \in DOMAIN withU THEN withU ELSE Put(withU, v, NoNodeData)
    IN  [G EXCEPT !.node = withV,
                  !.edge = Put(G.edge, <<u, v>>, UpdateEdgeData(NoEdgeData, attr))]

\* networkx DiGraph.add_edge(u, v, **attr): both ends become nodes, the
\* edge's metadata dict is created when the edge is new and then updated
add_edge(G, u, v, attr) ==
    LET withU == IF u \in DOMAIN G.node THEN G.node ELSE Put(G.node, u, NoNodeData)
        withV == IF v \in DOMAIN withU THEN withU ELSE Put(withU, v, NoNodeData)
        old == IF <<u, v>> \in DOMAIN G.edge THEN G.edge[<<u, v>>] ELSE NoEdgeData
    IN  [G EXCEPT !.node = withV,
                  !.edge = Put(G.edge, <<u, v>>, UpdateEdgeData(old, attr))]

\* outcome of a handler: the graph after it and the exception raised ("" if none)
Outcome(G, err) == [g |-> G, err |-> err]

\* a mutant of _handle_edge_statement: the directive is checked after the
\* attribute fragments were stored
handle_edge_statement_late_check(G, st) ==
    LET key == <<st.start, st.end>>
        have == IF key \in DOMAIN G.edge_attrs THEN G.edge_attrs[key] ELSE <<>>
        G1 == IF st.data # <<>>
              THEN [G EXCEPT !.edge_attrs = Put(G.edge_attrs, key, have \o st.data)]
              ELSE G
        kwargs == [label |-> st.label, comment |-> st.comment,
                   is_subgraph_relation |-> FALSE]
    IN  IF st.directive \notin {"", "attr"}
        THEN Outcome(G1, "ValueError")
        ELSE Outcome(add_edge(G1, st.start, st.end, kwargs), "")

\* Graph._handle_edge_statement
handle_edge_statement(G, st) ==
    IF st.directive \notin {"", "attr"}
    THEN Outcome(G, "ValueError")
    ELSE LET key == <<st.start, st.end>>
             have == IF key \in DOMAIN G.edge_attrs THEN G.edge_attrs[key] ELSE <<>>
             G1 == IF st.data # <<>>
                   THEN [G EXCEPT !.edge_attrs = Put(G.edge_attrs, key, have \o st.data)]
                   ELSE G
             kwargs == [label |-> st.label, comment |-> st.comment,
                        is_subgraph_relation |-> FALSE]
         IN  Outcome(add_edge(G1, st.start, st.end, kwargs), "")

\* the loop of _handle_subgraph: one subgraph-relation edge per non-empty child
RECURSIVE add_children(_, _, _, _)
add_children(G, subgraph_id, children, i) ==
    IF i > Len(children) THEN G
    ELSE LET child == children[i]
             G1 == IF child # ""
                   THEN add_edge(G, subgraph_id, child,
                                 [label |-> "", comment |-> "",
                                  is_subgraph_relation |-> TRUE])
                   ELSE G
         IN  add_children(G1, subgraph_id, children, i + 1)

\* a mutant of _handle_subgraph: only the first token of the data is taken
\* as a child
handle_subgraph_first_child(G, st) ==
    LET subgraph_id == st.node
        G1 == add_children(G, subgraph_id, SubSeq(st.data, 1, 1), 1)
    IN  IF subgraph_id \notin DOMAIN G1.node
        THEN Outcome(G1, "KeyError")
        ELSE LET old == G1.node[subgraph_id]
                 new == [subgraph |-> TRUE,
                         label |-> IF st.label # "" THEN st.label ELSE old.label]
             IN  Outcome([G1 EXCEPT !.node = Put(G1.node, subgraph_id, new)], "")

\* Graph._handle_subgraph
handle_subgraph(G, st) ==
    LET subgraph_id == st.node
        G1 == add_children(G, subgraph_id, st.data, 1)
    IN  IF subgraph_id \notin DOMAIN G1.node
        THEN Outcome(G1, "KeyError")       \* self.g.node[subgraph_id]
        ELSE LET old == G1.node[subgraph_id]
                 new == [subgraph |-> TRUE,
                         label |-> IF st.label # "" THEN st.label ELSE old.label]
             IN  Outcome([G1 EXCEPT !.node = Put(G1.node, subgraph_id, new)], "")

\* the attribute text an attr statement stores for a node
NodeAttrText(st) ==
    IF st.comment # "" THEN <<"tooltip=", st.comment>> \o st.data ELSE st.data

\* a mutant of _handle_node_statement: the style directives store their data
handle_node_statement_storing_styles(G, st) ==
    CASE st.directive = "subgraph" -> handle_subgraph(G, st)
      [] st.directive = "attr" ->
            IF st.node = "graph"
            THEN Outcome([G EXCEPT !.graph_attrs = Append(G.graph_attrs, st.data)], "")
            ELSE Outcome([G EXCEPT !.node_attrs =
                             Put(G.node_attrs, st.node, NodeAttrText(st))], "")
      [] st.directive = "ancestors" ->
            Outcome([G EXCEPT !.ascendant_styles = Append(@, st.data)], "")
      [] st.directive = "descendants" ->
            Outcome([G EXCEPT !.descendant_styles = Append(@, st.data)], "")
      [] st.directive = "allPaths" ->
            Outcome([G EXCEPT !.path_styles = Append(@, st.data)], "")
      [] OTHER -> Outcome(G, "")

\* Graph._handle_node_statement
handle_node_statement(G, st) ==
    CASE st.directive = "subgraph" -> handle_subgraph(G, st)
      [] st.directive = "attr" ->
            IF st.node = "graph"
            THEN Outcome([G EXCEPT !.graph_attrs = Append(G.graph_attrs, st.data)], "")
            ELSE Outcome([G EXCEPT !.node_attrs =
                             Put(G.node_attrs, st.node, NodeAttrText(st))], "")
      [] OTHER -> Outcome(G, "")    \* allPaths, ancestors, descendants: no branch

\* Graph.include_statement
include_statement(G, st) ==
    IF IsEdgeShaped(st) THEN handle_edge_statement(G, st)
    ELSE handle_node_statement(G, st)

----------------------------------------------------------------------------
(* Iteration order.  The interpreter iterates a dict in an order fixed by   *)
(* its keys' hashes; dict_order is that order over the node ids.            *)

Orderings(S) ==
    {p \in [1..Cardinality(S) -> S] : \A x \in S : \E i \in DOMAIN p : p[i] = x}

\* the members of the set S in iteration order
InOrder(S) == SelectSeq(dict_order, LAMBDA x : x \in S)

Successors(G, u) == {v \in DOMAIN G.node : <<u, v>> \in DOMAIN G.edge}
Predecessors(G, v) == {u \in DOMAIN G.node : <<u, v>> \in DOMAIN G.edge}

RECURSIVE Flatten(_)
Flatten(ss) == IF ss = <<>> THEN <<>> ELSE Head(ss) \o Flatten(Tail(ss))

\* g.edges(): every node in order, and for each its successors in order
EdgesInOrder(G) ==
    Flatten([i \in 1..Len(InOrder(DOMAIN G.node)) |->
        LET u == InOrder(DOMAIN G.node)[i]
            succ == InOrder(Successors(G, u))
        IN  [j \in 1..Len(succ) |-> <<u, succ[j]>>]])

----------------------------------------------------------------------------
(* Graph algorithms of the networkx library, as render_dot calls them *)

\* the subgraph-relation edges: the DiGraph `subgraphs` of render_dot
SubgraphRelations(G) == {e \in DOMAIN G.edge : G.edge[e].is_subgraph_relation}
SubgraphNodes(G) == {e[1] : e \in SubgraphRelations(G)} \cup
                    {e[2] : e \in SubgraphRelations(G)}

\* nodes joined to the set S by edges of E taken in either direction
RECURSIVE WeakComponent(_, _)
WeakComponent(E, S) ==
    LET more == S \cup {e[2] : e \in {d \in E : d[1] \in S}}
                  \cup {e[1] : e \in {d \in E : d[2] \in S}}
    IN  IF more = S THEN S ELSE WeakComponent(E, more)

\* networkx tree.is_forest on a directed graph: every weakly connected
\* component has one edge less than it has nodes
is_forest(E, V) ==
    \A v \in V :
        LET c == WeakComponent(E, {v})
        IN  Cardinality(c) - 1 = Cardinality({e \in E : e[1] \in c /\ e[2] \in c})

\* networkx dag.topological_sort: the nodes without a parent are stacked in
\* iteration order; the top one is popped and yielded, and each child whose
\* parents were all yielded is pushed
RECURSIVE TopologicalLoop(_, _, _, _)
TopologicalLoop(E, zero_indegree, indegree_map, yielded) ==
    IF zero_indegree = <<>> THEN yielded
    ELSE LET node == zero_indegree[Len(zero_indegree)]
             rest == SubSeq(zero_indegree, 1, Len(zero_indegree) - 1)
             children == InOrder({e[2] : e \in {d \in E : d[1] = node}})
             lowered == [v \in DOMAIN indegree_map |->
                            IF <<node, v>> \in E THEN indegree_map[v] - 1
                            ELSE indegree_map[v]]
             freed == SelectSeq(children, LAMBDA v : lowered[v] = 0)
             kept == [v \in {w \in DOMAIN lowered : lowered[w] > 0} |-> lowered[v]]
         IN  TopologicalLoop(E, rest \o freed, kept, Append(yielded, node))

topological_sort(E, V) ==
    LET indegree(v) == Cardinality({e \in E : e[2] = v})
    IN  TopologicalLoop(E,
            InOrder({v \in V : indegree(v) = 0}),
            [v \in {w \in V : indegree(w) > 0} |-> indegree(v)],
            <<>>)

\* nodes reachable from the set S along edges
RECURSIVE Reach(_, _)
Reach(G, S) ==
    LET more == S \cup UNION {Successors(G, u) : u \in S}
    IN  IF more = S THEN S ELSE Reach(G, more)

\* networkx.descendants / networkx.ancestors
descendants(G, v) == Reach(G, {v}) \ {v}
ancestors(G, v) == {u \in DOMAIN G.node : v \in Reach(G, {u})} \ {v}

\* networkx.all_shortest_paths(g, s, t): every path from s to t with the
\* fewest edges, each the sequence of its nodes (a shortest path repeats no
\* node, so none is longer than the graph has nodes)
all_shortest_paths(G, s, t) ==
    LET candidates == UNION {[1..k -> DOMAIN G.node] :
                                k \in 1..Cardinality(DOMAIN G.node)}
        paths == {p \in candidates :
                    /\ p[1] = s
                    /\ p[Len(p)] = t
                    /\ \A i \in 1..(Len(p) - 1) : <<p[i], p[i + 1]>> \in DOMAIN G.edge}
    IN  {p \in paths : \A q \in paths : Len(p) <= Len(q)}

----------------------------------------------------------------------------
(* render_dot: the style passes *)

\* NODE_STYLES.get(attrs, attrs)
NODE_STYLES(attrs) ==
    CASE attrs = "highlight" -> <<"style=filled", "fillcolor=pink">>
      [] attrs = "pink" -> <<"style=filled", "fillcolor=pink">>
      [] attrs = "green" -> <<"style=filled", "fillcolor=green">>
      [] OTHER -> <<attrs>>

\* node_attrs[v] = attrs + ';' + node_attrs.get(v, ''), done `times` times
RECURSIVE Prepend(_, _, _)
Prepend(attrs, old, times) ==
    IF times = 0 THEN old ELSE Prepend(attrs, attrs \o <<";">> \o old, times - 1)

\* the node_attrs after every node v had the style prepended count[v] times
Styled(node_attrs, attrs, count) ==
    LET touched == {v \in DOMAIN count : count[v] > 0}
    IN  [v \in (DOMAIN node_attrs) \cup touched |->
            LET old == IF v \in DOMAIN node_attrs THEN node_attrs[v] ELSE <<>>
            IN  IF v \in touched THEN Prepend(attrs, old, count[v]) ELSE old]

\* one pass of render_dot over the specs of a kind; `specs` holds the groups
\* re.match(...).groups() gives for each spec, <<>> for a spec that does not match
RECURSIVE StylePass(_, _, _, _)
StylePass(out, kind, specs, i) ==
    IF i > Len(specs) \/ out.err # "" THEN out
    ELSE LET G == out.g
             spec == specs[i]
             arity == IF kind = "path" THEN 3 ELSE 2
         IN  IF Len(spec) # arity
             THEN Outcome(G, "AttributeError")      \* None has no groups()
             ELSE LET attrs == NODE_STYLES(spec[arity])
                      known == spec[1] \in DOMAIN G.node
                      paths == IF kind = "path" /\ known
                               THEN all_shortest_paths(G, spec[1], spec[2]) ELSE {}
                      count ==
                        CASE kind = "ancestor" ->
                               [v \in ancestors(G, spec[1]) |-> 1]
                          [] kind = "descendant" ->
                               [v \in descendants(G, spec[1]) |-> 1]
                          [] OTHER ->
                               [v \in DOMAIN G.node |->
                                   Cardinality({p \in paths :
                                                  \E k \in DOMAIN p : p[k] = v})]
                      nopath == kind = "path" /\ paths = {}
                  IN  IF ~known \/ nopath
                      THEN Outcome(G, "NetworkXError")
                      ELSE StylePass(
                             Outcome([G EXCEPT !.node_attrs = Styled(@, attrs, count)], ""),
                             kind, specs, i + 1)

\* the three loops of render_dot over the style lists
ApplyStyles(G) ==
    LET afterAscendants == StylePass(Outcome(G, ""), "ancestor", G.ascendant_styles, 1)
        afterDescendants == StylePass(afterAscendants, "descendant",
                                      G.descendant_styles, 1)
    IN  StylePass(afterDescendants, "path", G.path_styles, 1)

----------------------------------------------------------------------------
(* render_dot: the document *)

\* root.replace(".", "_") over the identifiers of the model
DotToUnderscore(id) == IF id = "b.c" THEN "b_c" ELSE id

NodeAttrsGet(G, node_id) ==
    IF node_id \in DOMAIN G.node_attrs THEN G.node_attrs[node_id] ELSE <<>>

\* Graph.render_node
render_node(G, node_id) == <<"node", node_id>> \o NodeAttrsGet(G, node_id)

\* Graph.should_include_node
should_include_node(G, node_id) ==
    \/ G.include_everything
    \/ Successors(G, node_id) # {}
    \/ \E u \in Predecessors(G, node_id) :
          ~G.edge[<<u, node_id>>].is_subgraph_relation

\* state of the traversal: lines emitted, nodes visited, exception raised
Traversal(dot, visited, err) == [dot |-> dot, visited |-> visited, err |-> err]

RECURSIVE render_subgraph(_, _, _, _)
RECURSIVE render_children(_, _, _, _, _)

\* the loop `for child in self.g[root]` of render_subgraph
render_children(G, children, i, acc, depth) ==
    IF i > Len(children) \/ acc.err # "" THEN acc
    ELSE LET child == children[i]
         IN  IF child \in acc.visited
             THEN render_children(G, children, i + 1, acc, depth)
             ELSE IF G.node[child].subgraph
             THEN LET sub == render_subgraph(G, child, acc.visited, depth + 1)
                  IN  render_children(G, children, i + 1,
                          Traversal(acc.dot \o sub.dot,
                                    sub.visited \cup {child}, sub.err), depth)
             ELSE render_children(G, children, i + 1,
                      Traversal(IF should_include_node(G, child)
                                THEN Append(acc.dot, render_node(G, child))
                                ELSE acc.dot,
                                acc.visited \cup {child}, ""), depth)

\* Graph.render_subgraph; a call nested deeper than the interpreter's
\* recursion limit raises RuntimeError
render_subgraph(G, root, already_visited, depth) ==
    IF depth > MaxDepth
    THEN Traversal(<<>>, already_visited, "RuntimeError")
    ELSE LET subgraph_attrs == NodeAttrsGet(G, root)
             head == << <<"subgraph", "cluster_", DotToUnderscore(root), "{">>,
                        <<"id", root>> >>
                     \o (IF subgraph_attrs # <<>> THEN <<subgraph_attrs>> ELSE <<>>)
                     \o << <<"label", G.node[root].label, "style=dashed">> >>
             body == render_children(G, InOrder(Successors(G, root)), 1,
                                     Traversal(head, already_visited, ""), depth)
         IN  Traversal(Append(body.dot, <<"}">>), body.visited, body.err)

\* the loop of render_dot over the topological order of the subgraph relations
RECURSIVE render_clusters(_, _, _, _)
render_clusters(G, order, i, acc) ==
    IF i > Len(order) \/ acc.err # "" THEN acc
    ELSE LET node == order[i]
         IN  IF node \in acc.visited THEN render_clusters(G, order, i + 1, acc)
             ELSE IF G.node[node].subgraph
             THEN LET sub == render_subgraph(G, node, acc.visited \cup {node}, 1)
                  IN  render_clusters(G, order, i + 1,
                          Traversal(acc.dot \o sub.dot, sub.visited, sub.err))
             ELSE render_clusters(G, order, i + 1,
                      Traversal(acc.dot, acc.visited \cup {node}, ""))

\* the edge_attrs[a][b] of a defaultdict: a missing entry is created empty
EdgeAttrsTouched(G, edges) ==
    [e \in (DOMAIN G.edge_attrs) \cup edges |->
        IF e \in DOMAIN G.edge_attrs THEN G.edge_attrs[e] ELSE <<>>]

\* the line render_dot emits for an edge that is no subgraph relation
render_edge(G, e) ==
    LET edge_data == G.edge[e]
        own == IF e \in DOMAIN G.edge_attrs THEN G.edge_attrs[e] ELSE <<>>
    IN  <<"edge", e[1], e[2], "id", e[1], "/", e[2]>> \o own
        \o (IF edge_data.comment # "" THEN <<"tooltip=", edge_data.comment>> ELSE <<>>)
        \o (IF edge_data.label # "" THEN <<"label=", edge_data.label>> ELSE <<>>)

\* a mutant of the last loop of render_dot: the nodes already placed in a
\* cluster are not skipped
render_remaining_nodes_unchecked(G, already_visited) ==
    LET order == InOrder({v \in DOMAIN G.node : should_include_node(G, v)})
    IN  [i \in 1..Len(order) |-> render_node(G, order[i])]

\* the last loop of render_dot: the nodes no cluster has placed
render_remaining_nodes(G, already_visited) ==
    LET order == InOrder({v \in DOMAIN G.node :
                            v \notin already_visited /\ should_include_node(G, v)})
    IN  [i \in 1..Len(order) |-> render_node(G, order[i])]

\* what a render_dot call leaves: the graph, the exception raised ("" if
\* none) and the text returned (<<>> when it raised)
Rendered(G, err, text) == [g |-> G, err |-> err, text |-> text]

\* Graph.render_dot
render_dot(G) ==
    LET top == << <<"digraph G {">> >>
               \o (IF G.graph_attrs # <<>>
                   THEN << <<"graph_attrs">> \o Flatten(G.graph_attrs) >>
                   ELSE <<>>)
        E == SubgraphRelations(G)
        V == SubgraphNodes(G)
    IN  IF V # {} /\ ~is_forest(E, V)
        THEN Rendered(G, "ValueError", <<>>)
        ELSE
        LET styled == ApplyStyles(G)
            G1 == styled.g
        IN  IF styled.err # "" THEN Rendered(G1, styled.err, <<>>)
            ELSE
            LET clusters == render_clusters(G1, topological_sort(E, V), 1,
                                            Traversal(top, {}, ""))
            IN  IF clusters.err # "" THEN Rendered(G1, clusters.err, <<>>)
                ELSE
                LET plain == SelectSeq(EdgesInOrder(G1),
                                LAMBDA e : ~G1.edge[e].is_subgraph_relation)
                    edges == [i \in 1..Len(plain) |-> render_edge(G1, plain[i])]
                    G2 == [G1 EXCEPT !.edge_attrs =
                              EdgeAttrsTouched(G1, {plain[i] : i \in 1..Len(plain)})]
                IN  Rendered(G2, "",
                        clusters.dot \o edges
                        \o render_remaining_nodes(G1, clusters.visited)
                        \o << <<"}">> >>)

\* Graph.get_graph_data()['edges']: node -> successor -> metadata
get_graph_data_edges(G) ==
    [u \in DOMAIN G.node |-> [v \in Successors(G, u) |-> G.edge[<<u, v>>]]]

----------------------------------------------------------------------------
(* The statements the builder is fed *)

EdgeStatement(start, end, directive, label, comment, data) ==
    Statement(start, end, "", directive, label, comment, data)

NodeStatement(node, directive, label, comment, data) ==
    Statement("", "", node, directive, label, comment, data)

PlainPairs == {<<"a", "b">>, <<"b", "c">>, <<"a", "c">>, <<"b", "b">>, <<"c", "a">>}

EdgeStatements ==
    \* a --> b
    {EdgeStatement(p[1], p[2], "", "", "", <<>>) : p \in PlainPairs}
    \* a --> b :: c1
    \cup {EdgeStatement("a", "b", "", "", "c1", <<>>)}
    \* ..attr: a --> b, L1: d1    and    ..attr: a --> b, L2: :: c2
    \cup {EdgeStatement("a", "b", "attr", "L1", "", <<"d1">>),
          EdgeStatement("a", "b", "attr", "L2", "c2", <<>>)}
    \* ..subgraph: a --> b: c    and    ..ancestors: a --> b: c
    \cup {EdgeStatement("a", "b", d, "", "", <<"c">>) : d \in {"subgraph", "ancestors"}}

NodeStatements ==
    \* ..attr: a: d1    ..attr: a: d2 :: c1    ..attr: graph: d1
    {NodeStatement("a", "attr", "", "", <<"d1">>),
     NodeStatement("a", "attr", "", "c1", <<"d2">>),
     NodeStatement("graph", "attr", "", "", <<"d1">>)}
    \* ..subgraph: a, L1: b    ..subgraph: b: c    ..subgraph: c: b
    \* ..subgraph: c:          ..subgraph: a: b,,c
    \cup {NodeStatement("a", "subgraph", "L1", "", <<"b">>),
          NodeStatement("b", "subgraph", "", "", <<"c">>),
          NodeStatement("c", "subgraph", "", "", <<"b">>),
          NodeStatement("c", "subgraph", "", "", <<"">>),
          NodeStatement("a", "subgraph", "", "", <<"b", "", "c">>)}
    \* ..ancestors: c: c: pink    ..descendants: a: a: d3    ..allPaths: a: a to c: green
    \cup {NodeStatement("c", "ancestors", "", "", <<"c", "pink">>),
          NodeStatement("a", "descendants", "", "", <<"a", "d3">>),
          NodeStatement("a", "allPaths", "", "", <<"a", "c", "green">>)}

Statements == EdgeStatements \cup NodeStatements

----------------------------------------------------------------------------
(* Building and rendering: from_lines, then render_dot any number of times *)

NotRendered == [err |-> "", text |-> <<>>]

OrderIdle == /\ lines = <<>> /\ shuffled = <<>>
             /\ built = Outcome(Graph(FALSE), "") /\ built2 = Outcome(Graph(FALSE), "")
NoParts == [start |-> <<>>, left |-> 0, right |-> 0, end |-> <<>>]
ScanIdle == /\ line = <<>> /\ loc = 0 /\ found = <<>> /\ spans = <<>>
            /\ given = NoParts

Init ==
    /\ \E include_everything \in BOOLEAN : graph = Graph(include_everything)
    /\ dict_order \in Orderings(Nodes)
    /\ pc = "building"
    /\ n = 0
    /\ last = NoStatement
    /\ error = ""
    /\ doc = NotRendered
    /\ renders = 0
    /\ OrderIdle
    /\ ScanIdle

\* one turn of the loop of from_lines: the next statement is included; an
\* exception ends from_lines, which then returns nothing
IncludeStatement(st) ==
    /\ pc = "building"
    /\ n < MaxStatements
    /\ LET out == include_statement(graph, st)
       IN  /\ graph' = out.g
           /\ error' = out.err
           /\ pc' = IF out.err # "" THEN "aborted" ELSE "building"
    /\ n' = n + 1
    /\ last' = st
    /\ UNCHANGED <<doc, renders, dict_order, orderVars, scanVars>>

\* from_lines ran out of lines and returns the graph
FromLinesReturn ==
    /\ pc = "building"
    /\ pc' = "returned"
    /\ UNCHANGED <<graph, n, last, error, doc, renders, dict_order, orderVars, scanVars>>

\* a call of render_dot on the graph from_lines returned
RenderDot ==
    /\ pc = "returned"
    /\ renders < MaxRenders
    /\ LET r == render_dot(graph)
       IN  /\ graph' = r.g
           /\ doc' = [err |-> r.err, text |-> r.text]
    /\ renders' = renders + 1
    /\ UNCHANGED <<pc, n, last, error, dict_order, orderVars, scanVars>>

Next ==
    \/ \E st \in Statements : IncludeStatement(st)
    \/ FromLinesReturn
    \/ RenderDot

Spec == Init /\ [][Next]_vars

----------------------------------------------------------------------------
(* Claims about building and rendering, checked under Spec *)

\* the step from the unprimed to the primed state is a call of include_statement
\* (its statement is last')
IncludeStep == n' = n + 1

\* the step is a call of render_dot
RenderStep == renders' = renders + 1

NonAttrDirectives == {"subgraph", "allPaths", "ancestors", "descendants"}

\* some node is the child of two different subgraph declarations
TwoSubgraphParents(G) ==
    \E x \in DOMAIN G.node : \E p1, p2 \in DOMAIN G.node :
        /\ p1 # p2
        /\ <<p1, x>> \in SubgraphRelations(G)
        /\ <<p2, x>> \in SubgraphRelations(G)

\* C1: when some node is the child of two different subgraph declarations,
\* render_dot fails with a structure error and returns no document text.
C1_TwoParentsFailRender ==
    (renders >= 1 /\ TwoSubgraphParents(graph))
        => (doc.err = "ValueError" /\ doc.text = <<>>)

\* C2: include_statement of a node statement whose directive is ancestors,
\* descendants or allPaths appends the statement's data to the list of that
\* kind and leaves the other two lists alone.
C2_StyleSpecAppended ==
    [][(IncludeStep /\ ~IsEdgeShaped(last')
          /\ last'.directive \in {"ancestors", "descendants", "allPaths"})
       => /\ graph'.ascendant_styles =
                IF last'.directive = "ancestors"
                THEN Append(graph.ascendant_styles, last'.data)
                ELSE graph.ascendant_styles
          /\ graph'.descendant_styles =
                IF last'.directive = "descendants"
                THEN Append(graph.descendant_styles, last'.data)
                ELSE graph.descendant_styles
          /\ graph'.path_styles =
                IF last'.directive = "allPaths"
                THEN Append(graph.path_styles, last'.data)
                ELSE graph.path_styles]_vars

\* C3: include_statement never fails on a node-shaped statement: whenever it
\* raised, the statement was edge-shaped with a directive other than attr.
C3_OnlyBadEdgeStatementsFail ==
    error # "" => (IsEdgeShaped(last) /\ last.directive \in NonAttrDirectives)

\* C4: include_statement of a statement that carries start/end together with
\* a directive in {subgraph, allPaths, ancestors, descendants} raises and
\* leaves every part of the graph as it was; from_lines aborts at that
\* statement and, once aborted, never returns a graph.
C4_BadEdgeStatementAborts ==
    [][/\ (IncludeStep /\ IsEdgeShaped(last')
             /\ last'.directive \in NonAttrDirectives)
          => (error' = "ValueError" /\ graph' = graph /\ pc' = "aborted")
       /\ pc = "aborted" => (pc' = "aborted" /\ graph' = graph /\ doc' = NotRendered)
      ]_vars

\* C4 witness: from_lines aborted on an edge-shaped subgraph statement after
\* the graph already held an edge with attribute fragments.
C4_Witness ==
    /\ pc = "aborted"
    /\ error = "ValueError"
    /\ IsEdgeShaped(last) /\ last.directive = "subgraph"
    /\ <<"a", "b">> \in DOMAIN graph.edge_attrs
    /\ graph.edge_attrs[<<"a", "b">>] = <<"d1">>

\* C5 as stated: after include_statement of an edge statement for (s, e) the
\* stored metadata of the edge is only the statement's label and comment, and
\* nothing an earlier statement left (label, comment, is_subgraph_relation).
C5_LaterEdgeReplacesMetadata ==
    [][(IncludeStep /\ IsEdgeShaped(last') /\ error' = "")
       => graph'.edge[<<last'.start, last'.end>>] =
             [label |-> last'.label, comment |-> last'.comment,
              is_subgraph_relation |-> FALSE]]_vars

\* the metadata of edge e in G, that of a new edge when G has no such edge
EdgeDataOr(G, e) == IF e \in DOMAIN G.edge THEN G.edge[e] ELSE NoEdgeData

\* C5 amended: after include_statement of an edge statement for (s, e), each
\* of label and comment the statement carries is stored with the statement's
\* value, and every key it does not carry (label, comment,
\* is_subgraph_relation) keeps what earlier statements left.
C5_LaterEdgeUpdatesMetadata ==
    [][(IncludeStep /\ IsEdgeShaped(last') /\ error' = "")
       => LET e == <<last'.start, last'.end>>
              before == EdgeDataOr(graph, e)
              after == graph'.edge[e]
          IN  /\ last'.label # "" => after.label = last'.label
              /\ last'.label = "" => after.label = before.label
              /\ last'.comment # "" => after.comment = last'.comment
              /\ last'.comment = "" => after.comment = before.comment
              /\ after.is_subgraph_relation = before.is_subgraph_relation]_vars

\* C5 witness: a plain edge statement a --> b was the latest included and
\* the edge still has the flag and the label earlier statements gave it.
C5_Witness ==
    /\ error = ""
    /\ last = EdgeStatement("a", "b", "", "", "", <<>>)
    /\ <<"a", "b">> \in DOMAIN graph.edge
    /\ graph.edge[<<"a", "b">>].is_subgraph_relation
    /\ graph.edge[<<"a", "b">>].label = "L1"

\* the lines of the text that are the node statement of v
NodeLines(text, v) ==
    {i \in DOMAIN text : text[i][1] = "node" /\ text[i][2] = v}

\* the lines of the text that open the cluster block of root v
ClusterLines(text, v) ==
    {i \in DOMAIN text : text[i][1] = "id" /\ text[i][2] = v}

\* C7: in a document render_dot returns, no node id has more than one node
\* statement, no subgraph root has more than one cluster block, and no id
\* has both.
C7_EachNodeEmittedOnce ==
    (renders >= 1 /\ doc.err = "")
        => \A v \in DOMAIN graph.node :
              Cardinality(NodeLines(doc.text, v) \cup ClusterLines(doc.text, v)) <= 1

\* C7 witness: a returned document with a cluster nested in another, a node
\* statement in a cluster and an ordinary edge leaving a cluster root.
C7_Witness ==
    /\ renders >= 1 /\ doc.err = ""
    /\ ClusterLines(doc.text, "a") # {}
    /\ ClusterLines(doc.text, "b") # {}
    /\ NodeLines(doc.text, "c") # {}
    /\ \E i \in DOMAIN doc.text : doc.text[i][1] = "edge" /\ doc.text[i][2] = "a"

\* the node ids a statement names
NamedNodes(st) == IF IsEdgeShaped(st) THEN {st.start, st.end} ELSE {st.node}

\* C8 as stated: after include_statement of an edge statement or a node
\* directive naming node n (the reserved id "graph" aside), n is among the
\* graph's nodes.
C8_NamedNodeBecomesNode ==
    (n >= 1 /\ error = "")
        => (NamedNodes(last) \ {"graph"}) \subseteq DOMAIN graph.node

\* the non-empty children a subgraph statement lists
ChildrenOf(st) == {st.data[i] : i \in {j \in DOMAIN st.data : st.data[j] # ""}}

\* C8 amended: when include_statement returns, an edge statement has made
\* its start and end nodes of the graph, a subgraph directive has made its
\* node and every non-empty child nodes of the graph, and an attr, allPaths,
\* ancestors or descendants directive on a node has left the node set as it
\* was.
C8_NodesGrownByEdgesAndSubgraphs ==
    [][(IncludeStep /\ error' = "")
       => /\ IsEdgeShaped(last')
               => {last'.start, last'.end} \subseteq DOMAIN graph'.node
          /\ (~IsEdgeShaped(last') /\ last'.directive = "subgraph")
               => ({last'.node} \cup ChildrenOf(last')) \subseteq DOMAIN graph'.node
          /\ (~IsEdgeShaped(last') /\ last'.directive # "subgraph")
               => DOMAIN graph'.node = DOMAIN graph.node]_vars

\* C8 witness: an attr directive on node a was included into a graph that
\* has nodes, and a is none of them although its attributes are stored.
C8_Witness ==
    /\ error = "" /\ n >= 2
    /\ ~IsEdgeShaped(last) /\ last.directive = "attr" /\ last.node = "a"
    /\ "a" \in DOMAIN graph.node_attrs
    /\ "a" \notin DOMAIN graph.node
    /\ DOMAIN graph.node # {}

----------------------------------------------------------------------------
(* The order of the lines: from_lines on a statement list and on a          *)
(* permutation of it                                                        *)

MaxLines == 3

\* Graph.from_lines over the statements of its lines: the statements are
\* included in order; an exception of include_statement ends the call
RECURSIVE from_lines_loop(_, _, _)
from_lines_loop(out, statements, i) ==
    IF i > Len(statements) \/ out.err # "" THEN out
    ELSE from_lines_loop(include_statement(out.g, statements[i]), statements, i + 1)

from_lines(statements) ==
    from_lines_loop(Outcome(Graph(FALSE), ""), statements, 1)

\* the edge and subgraph statements of the order study
OrderStatements ==
    {EdgeStatement("a", "b", "", "", "", <<>>),
     EdgeStatement("a", "b", "", "", "c1", <<>>),
     EdgeStatement("a", "b", "", "", "c2", <<>>),
     EdgeStatement("a", "b", "attr", "L1", "", <<"d1">>),
     EdgeStatement("c", "a", "", "", "", <<>>),
     NodeStatement("a", "subgraph", "L1", "", <<"b">>),
     NodeStatement("b", "subgraph", "", "", <<"c">>),
     NodeStatement("c", "subgraph", "", "", <<"">>),
     NodeStatement("a", "subgraph", "", "", <<"b", "", "c">>)}

GraphIdle ==
    /\ graph = Graph(FALSE) /\ pc = "building" /\ n = 0 /\ last = NoStatement
    /\ error = "" /\ doc = NotRendered /\ renders = 0
    /\ dict_order = <<"a", "b", "c">>

InitOrder ==
    /\ lines = <<>>
    /\ shuffled = <<>>
    /\ built = from_lines(<<>>)
    /\ built2 = from_lines(<<>>)
    /\ GraphIdle
    /\ ScanIdle

\* one more statement is given, and from_lines is run on the list
OrderAddLine(st) ==
    /\ Len(lines) < MaxLines
    /\ lines' = Append(lines, st)
    /\ shuffled' = lines'
    /\ built' = from_lines(lines')
    /\ built2' = built'
    /\ UNCHANGED <<graphVars, scanVars>>

\* the statements are put in another order, and from_lines is run on that
OrderShuffle(p) ==
    /\ shuffled' = [i \in DOMAIN lines |-> lines[p[i]]]
    /\ shuffled' # shuffled
    /\ built2' = from_lines(shuffled')
    /\ UNCHANGED <<lines, built, graphVars, scanVars>>

NextOrder ==
    \/ \E st \in OrderStatements : OrderAddLine(st)
    \/ \E p \in Orderings(DOMAIN lines) : OrderShuffle(p)

SpecOrder == InitOrder /\ [][NextOrder]_vars

\* what a statement gives: <<pair, metadata key, value>>
Gives(st) ==
    IF IsEdgeShaped(st)
    THEN {<<st.start, st.end, "label", st.label>> : x \in {1} \cap {y \in {1} : st.label # ""}}
         \cup {<<st.start, st.end, "comment", st.comment>> :
                  x \in {1} \cap {y \in {1} : st.comment # ""}}
    ELSE {<<st.node, st.data[i], "is_subgraph_relation", "True">> :
             i \in {j \in DOMAIN st.data : st.data[j] # ""}}

\* no two statements give different values for the same key of the same pair
NonConflicting(statements) ==
    \A i, j \in DOMAIN statements :
        \A x \in Gives(statements[i]) : \A y \in Gives(statements[j]) :
            (x[1] = y[1] /\ x[2] = y[2] /\ x[3] = y[3]) => x[4] = y[4]

\* what the caller of from_lines sees of the edges: whether a graph was
\* returned and, if so, get_graph_data()['edges']
EdgesSnapshot(out) ==
    IF out.err # "" THEN [returned |-> FALSE, edges |-> <<>>]
    ELSE [returned |-> TRUE, edges |-> get_graph_data_edges(out.g)]

\* C6: for edge and subgraph statements without conflicting metadata, every
\* permutation of the statements fed to from_lines yields the same edges
\* snapshot.
C6_LineOrderDoesNotMatter ==
    NonConflicting(lines) => EdgesSnapshot(built2) = EdgesSnapshot(built)

----------------------------------------------------------------------------
(* The scanner: the pyparsing grammar of search_for_statements over a line  *)
(* given as the sequence of its characters.  A parse result is whether the  *)
(* elements so far matched, the position after the last match and the named *)
(* tokens collected (a function from result names to text).  Every element  *)
(* takes the result of the elements before it in its sequence and goes on   *)
(* from there.  Positions count from 1.                                     *)

MaxSpaces == 2

Matched(at, toks) == [ok |-> TRUE, loc |-> at, toks |-> toks]
NoMatch == [ok |-> FALSE, loc |-> 0, toks |-> <<>>]

\* the start of a parse at position at
From(at) == Matched(at, <<>>)

\* the whitespace pyparsing skips before an element
RECURSIVE SkipWhitespace(_, _)
SkipWhitespace(s, at) ==
    IF at <= Len(s) /\ s[at] = " " THEN SkipWhitespace(s, at + 1) ELSE at

\* alphanums + '._-' over the characters of the model
IdentifierChars == {"a", "b", "c", "t", "r", "x", "y", "0", ".", "_", "-",
                    "s", "u", "g", "p", "h", "l", "P", "n", "e", "o", "d", "L"}

\* the position after the longest run of characters of `chars` from `at`
RECURSIVE RunEnd(_, _, _)
RunEnd(s, at, chars) ==
    IF at <= Len(s) /\ s[at] \in chars THEN RunEnd(s, at + 1, chars) ELSE at

\* whether the text lit stands at position at
StandsAt(s, at, lit) ==
    /\ at + Len(lit) - 1 <= Len(s)
    /\ SubSeq(s, at, at + Len(lit) - 1) = lit

\* a mutant of Literal: leading whitespace is not skipped
LiteralNoSkip(s, r, lit) ==
    IF r.ok /\ StandsAt(s, r.loc, lit)
    THEN Matched(r.loc + Len(lit), r.toks)
    ELSE NoMatch

\* Suppress(lit): whitespace is skipped, then the text must follow
Literal(s, r, lit) ==
    IF ~r.ok THEN NoMatch
    ELSE LET p == SkipWhitespace(s, r.loc)
         IN  IF StandsAt(s, p, lit) THEN Matched(p + Len(lit), r.toks) ELSE NoMatch

\* Word(chars)(name): whitespace is skipped, then one or more of the characters
Word(s, r, chars, name) ==
    IF ~r.ok THEN NoMatch
    ELSE LET p == SkipWhitespace(s, r.loc)
             e == RunEnd(s, p, chars)
         IN  IF e > p THEN Matched(e, (name :> SubSeq(s, p, e - 1)) @@ r.toks)
             ELSE NoMatch

\* Identifier(name)
Identifier(s, r, name) == Word(s, r, IdentifierChars, name)

\* a mutant of RestOfLine: the text ends at the next blank
RestOfLineOneWord(s, r, name) ==
    IF ~r.ok THEN NoMatch
    ELSE LET p == SkipWhitespace(s, r.loc)
             e == RunEnd(s, p, {s[i] : i \in DOMAIN s} \ {" "})
         IN  Matched(e, (name :> SubSeq(s, p, e - 1)) @@ r.toks)

\* Regex('.*')(name): whitespace is skipped, then the rest of the line
RestOfLine(s, r, name) ==
    IF ~r.ok THEN NoMatch
    ELSE Matched(Len(s) + 1,
                 (name :> SubSeq(s, SkipWhitespace(s, r.loc), Len(s))) @@ r.toks)

\* MatchFirst / a | b
OrElse(r1, r2) == IF r1.ok THEN r1 ELSE r2

Arrow == <<"-", "-", ">">>
DoubleColon == <<":", ":">>
Directives == {<<"s", "u", "b", "g", "r", "a", "p", "h">>, <<"a", "t", "t", "r">>,
               <<"a", "l", "l", "P", "a", "t", "h", "s">>,
               <<"a", "n", "c", "e", "s", "t", "o", "r", "s">>,
               <<"d", "e", "s", "c", "e", "n", "d", "a", "n", "t", "s">>}

\* oneOf('subgraph attr allPaths ancestors descendants')('directive')
OneOfDirectives(s, r) ==
    IF ~r.ok THEN NoMatch
    ELSE LET p == SkipWhitespace(s, r.loc)
             hits == {d \in Directives : StandsAt(s, p, d)}
         IN  IF hits = {} THEN NoMatch
             ELSE LET d == CHOOSE d \in hits : TRUE
                  IN  Matched(p + Len(d), ("directive" :> d) @@ r.toks)

\* header = Suppress('..') + oneOf(...)('directive') + Suppress(':')
header(s, r) ==
    Literal(s, OneOfDirectives(s, Literal(s, r, <<".", ".">>)), <<":">>)

\* edge = Identifier('start') + Suppress('-->') + Identifier('end')
edge(s, r) ==
    Identifier(s, Literal(s, Identifier(s, r, "start"), Arrow), "end")

\* entity = edge | Identifier('node')
entity(s, r) == OrElse(edge(s, r), Identifier(s, r, "node"))

\* Regex('[^:]+')('label')
LabelText(s, r) ==
    IF ~r.ok THEN NoMatch
    ELSE LET p == SkipWhitespace(s, r.loc)
             e == RunEnd(s, p, {s[i] : i \in DOMAIN s} \ {":"})
         IN  IF e > p THEN Matched(e, ("label" :> SubSeq(s, p, e - 1)) @@ r.toks)
             ELSE NoMatch

\* labelledEntity = entity + Suppress(',') + Regex('[^:]+')('label')
labelledEntity(s, r) == LabelText(s, Literal(s, entity(s, r), <<",">>))

\* entityDetails = labelledEntity | entity
entityDetails(s, r) == OrElse(labelledEntity(s, r), entity(s, r))

\* SkipTo(Literal('::'))('data'): whitespace is skipped, then everything up
\* to the first '::'
SkipToDoubleColon(s, r) ==
    IF ~r.ok THEN NoMatch
    ELSE LET p == SkipWhitespace(s, r.loc)
             stops == {q \in p..Len(s) : StandsAt(s, q, DoubleColon)}
         IN  IF stops = {} THEN NoMatch
             ELSE LET q == CHOOSE q \in stops : \A q2 \in stops : q <= q2
                  IN  Matched(q, ("data" :> SubSeq(s, p, q - 1)) @@ r.toks)

\* comment = Regex('.*')('comment')
comment(s, r) == RestOfLine(s, r, "comment")

\* data: everything up to a '::' and the comment after it, or else the rest
\* of the line
data(s, r) ==
    OrElse(comment(s, Literal(s, SkipToDoubleColon(s, r), DoubleColon)),
           RestOfLine(s, r, "data"))

\* directive = header + entityDetails + Suppress(':') + data
directive(s, r) ==
    data(s, Literal(s, entityDetails(s, header(s, r)), <<":">>))

\* edgeSpec: an edge with a '::' comment, or else an edge
edgeSpec(s, r) ==
    OrElse(comment(s, Literal(s, edge(s, r), DoubleColon)), edge(s, r))

\* parser = directive | edgeSpec
parser(s, r) == OrElse(directive(s, r), edgeSpec(s, r))

\* the identifiers lines are built from
Identifiers == {<<"a">>, <<"b", "-">>, <<"-", "c">>, <<"x", ".", "y">>,
                <<".", ".", "a", "t", "t", "r">>}

Spaces(k) == [i \in 1..k |-> " "]

\* the line: start, spaces, -->, spaces, end
EdgeLine(parts) ==
    parts.start \o Spaces(parts.left) \o Arrow \o Spaces(parts.right) \o parts.end

InitScan ==
    /\ given \in [start : Identifiers, left : 0..MaxSpaces,
                  right : 0..MaxSpaces, end : Identifiers]
    /\ line = EdgeLine(given)
    /\ loc = 1
    /\ found = <<>>
    /\ spans = <<>>
    /\ GraphIdle
    /\ OrderIdle

\* search_for_statements has gone through the whole line
ScanDone == loc > Len(line) + 1

\* one turn of the loop of searchString: the parser is tried at the next
\* position that is no whitespace; a match is collected and the search goes
\* on where it ended, a failure moves the search one character on
ScanStep ==
    /\ ~ScanDone
    /\ LET preloc == SkipWhitespace(line, loc)
           r == parser(line, From(preloc))
       IN  IF r.ok /\ r.loc > loc
           THEN /\ found' = Append(found, r.toks)
                /\ spans' = Append(spans, [from |-> preloc, to |-> r.loc])
                /\ loc' = r.loc
           ELSE /\ found' = found
                /\ spans' = spans
                /\ loc' = preloc + 1
    /\ UNCHANGED <<line, given, graphVars, orderVars>>

NextScan == ScanStep

SpecScan == InitScan /\ [][NextScan]_vars

\* C10 as stated: a line holding A, zero or more spaces, -->, zero or more
\* spaces, B scans to the single statement {start: A, end: B}.
C10_ArrowWhitespaceInsignificant ==
    ScanDone => found = << [start |-> given.start, end |-> given.end] >>

\* C10 amended: a line holding A, one or more spaces, -->, zero or more
\* spaces, B scans to the single statement {start: A, end: B}.
C10_ArrowWhitespaceAfterStart ==
    (ScanDone /\ given.left >= 1)
        => found = << [start |-> given.start, end |-> given.end] >>

\* C10 witness: a line with two spaces before the arrow and none after it,
\* both identifiers holding a '-', was scanned to the end.
C10_Witness ==
    /\ ScanDone
    /\ given = [start |-> <<"b", "-">>, left |-> 2, right |-> 0, end |-> <<"-", "c">>]
    /\ found = << [start |-> <<"b", "-">>, end |-> <<"-", "c">>] >>

----------------------------------------------------------------------------
(* Claims about render_subgraph, checked under Spec *)

\* C12: render_dot comes to an end for every graph whose subgraph relations
\* pass the forest check, ordinary self-loops and cycles among subgraph nodes
\* included: render_subgraph never re-enters a cluster it is still rendering,
\* so the recursion never runs into the interpreter's recursion limit.
C12_RenderNeverReentersCluster ==
    renders >= 1 => doc.err # "RuntimeError"

\* the lines of a text that open a cluster block, and those that close one
Openers(text) == {i \in DOMAIN text : text[i][1] = "subgraph"}
Closers(text) == {i \in DOMAIN text : text[i] = <<"}">> /\ i < Len(text)}

\* the line that opens the innermost cluster block line i stands in, or 0:
\* the last opener before i with as many openers as closers between it and i
EnclosingOpener(text, i) ==
    LET around == {j \in Openers(text) :
                     /\ j < i
                     /\ Cardinality({k \in Openers(text) : j < k /\ k < i})
                          = Cardinality({k \in Closers(text) : j < k /\ k < i})}
    IN  IF around = {} THEN 0 ELSE CHOOSE j \in around : \A k \in around : k <= j

\* the root of the cluster block an opener line opens: the id line follows it
RootOf(text, j) == text[j + 1][2]

\* the node ids placed directly in the innermost block of each cluster: pairs
\* <<root of the block, node statement or nested cluster>>
PlacedIn(text) ==
    {<<RootOf(text, EnclosingOpener(text, i)),
       IF text[i][1] = "node" THEN text[i][2] ELSE RootOf(text, i)>> :
        i \in {k \in DOMAIN text : /\ (text[k][1] = "node" \/ k \in Openers(text))
                                    /\ EnclosingOpener(text, k) # 0}}

\* C13: in a document render_dot returns, every node statement and every
\* nested cluster that stands in the block of cluster X is a child of X by a
\* subgraph relation; a node X reaches by an ordinary edge only is not placed
\* in the block of X.
C13_ClusterHoldsSubgraphChildrenOnly ==
    (renders >= 1 /\ doc.err = "")
        => \A pair \in PlacedIn(doc.text) :
              /\ pair \in DOMAIN graph.edge
              /\ graph.edge[pair].is_subgraph_relation

----------------------------------------------------------------------------
(* Lines holding several statements, as in                                  *)
(* test_mixing_statements_and_random_text: some prose, then bare edges,     *)
(* then possibly a closing statement, which is an edge with a '::' comment  *)
(* or a directive.  The line is the text of these parts; the scanner gets   *)
(* the text only.                                                           *)

MaxEdges == 2

Sp == <<" ">>
Comma == <<",">>
Colon == <<":">>

\* what stands in front of the statements of a line
Proses == {<<>>, <<"x", ":", " ">>, <<"x", " ", "#", " ">>}

\* what stands between two statements of a line
Separators == {Sp, Comma \o Sp}

\* the bare edges of the lines
BareEdges == {[start |-> <<"a">>, end |-> <<"b">>],
              [start |-> <<"b">>, end |-> <<"c">>],
              [start |-> <<"x", ".", "y">>, end |-> <<"a">>]}

\* the texts used as data and as comment: one of them reads like an edge
Texts == {<<"r">>, <<"b">> \o Sp \o Arrow \o Sp \o <<"c">>}

\* a closing statement; <<>> stands for a part that is not written
Closing(dir, node, start, end, label, dat, commented, com) ==
    [directive |-> dir, node |-> node, start |-> start, end |-> end,
     label |-> label, data |-> dat, commented |-> commented, comment |-> com]

NoClosing == Closing(<<>>, <<>>, <<>>, <<>>, <<>>, <<>>, FALSE, <<>>)

Closings ==
    {Closing(<<>>, <<>>, <<"c">>, <<"a">>, <<>>, <<>>, TRUE, t) : t \in Texts}
    \cup {Closing(d, <<"a">>, <<>>, <<>>, <<>>, t, FALSE, <<>>) :
            d \in {<<"a", "t", "t", "r">>, <<"s", "u", "b", "g", "r", "a", "p", "h">>},
            t \in Texts}
    \cup {Closing(<<"a", "t", "t", "r">>, <<"a">>, <<>>, <<>>, <<>>, <<"r">>, TRUE, t) :
            t \in Texts}
    \cup {Closing(<<"a", "t", "t", "r">>, <<>>, <<"b">>, <<"c">>, <<"L">>, t, TRUE, t) :
            t \in Texts}

\* the text of an edge: start --> end
EdgeText(e) == e.start \o Sp \o Arrow \o Sp \o e.end

\* the text of a closing statement:
\*   start --> end :: comment
\*   ..directive: entity, label: data :: comment
ClosingText(c) ==
    LET entityText == IF c.node # <<>> THEN c.node ELSE EdgeText(c)
        labelText == IF c.label # <<>> THEN Comma \o Sp \o c.label ELSE <<>>
        commentText == IF c.commented
                       THEN Sp \o DoubleColon \o Sp \o c.comment ELSE <<>>
    IN  IF c.directive = <<>>
        THEN entityText \o commentText
        ELSE <<".", ".">> \o c.directive \o Colon \o Sp \o entityText \o labelText
             \o Colon \o Sp \o c.data \o commentText

\* the text of the bare edges from the i-th on, each followed by sep
RECURSIVE EdgesText(_, _, _)
EdgesText(edges, sep, i) ==
    IF i > Len(edges) THEN <<>>
    ELSE EdgeText(edges[i]) \o sep \o EdgesText(edges, sep, i + 1)

\* the whole line
LineText(parts) ==
    parts.prose \o EdgesText(parts.edges, parts.sep, 1)
    \o (IF parts.closing = NoClosing THEN <<>> ELSE ClosingText(parts.closing))

\* the statement a bare edge stands for
EdgeStatementOf(e) == ("start" :> e.start) @@ ("end" :> e.end)

\* the statement a closing statement stands for: the data in front of a '::'
\* keeps the blank that separates it from the '::'
ClosingStatementOf(c) ==
    LET ent == IF c.node # <<>> THEN ("node" :> c.node) ELSE EdgeStatementOf(c)
        lab == IF c.label # <<>> THEN ("label" :> c.label) ELSE <<>>
        com == IF c.commented THEN ("comment" :> c.comment) ELSE <<>>
    IN  IF c.directive = <<>> THEN ent @@ com
        ELSE ("directive" :> c.directive) @@ ent @@ lab @@ com
             @@ ("data" :> IF c.commented THEN c.data \o Sp ELSE c.data)

\* the statements the parts of a line stand for, left to right
StatementsOf(parts) ==
    [i \in DOMAIN parts.edges |-> EdgeStatementOf(parts.edges[i])]
    \o (IF parts.closing = NoClosing THEN <<>>
        ELSE <<ClosingStatementOf(parts.closing)>>)

\* the sequences of at most k bare edges
RECURSIVE EdgeLists(_)
EdgeLists(k) ==
    IF k = 0 THEN {<<>>}
    ELSE EdgeLists(k - 1)
         \cup {Append(es, e) : es \in {l \in EdgeLists(k - 1) : Len(l) = k - 1},
                               e \in BareEdges}

InitLines ==
    /\ given \in [prose : Proses, edges : EdgeLists(MaxEdges), sep : Separators,
                  closing : Closings \cup {NoClosing}]
    /\ line = LineText(given)
    /\ loc = 1
    /\ found = <<>>
    /\ spans = <<>>
    /\ GraphIdle
    /\ OrderIdle

SpecLines == InitLines /\ [][NextScan]_vars

\* whether a statement found closes its line: it has a comment or is a directive
ClosesLine(st) == "comment" \in DOMAIN st \/ "directive" \in DOMAIN st

\* C11: the statements of a line are returned left to right as matches that
\* do not overlap; a statement with a '::' comment or a directive runs to the
\* end of the line and is the last one returned, so that edge text in its
\* data or comment gives no statement; the bare edges in front of it are each
\* returned as a statement of their own.
C11_ClosingStatementTakesRestOfLine ==
    /\ Len(spans) = Len(found)
    /\ \A i \in DOMAIN spans :
          /\ 1 <= spans[i].from /\ spans[i].from < spans[i].to
          /\ spans[i].to <= Len(line) + 1
          /\ \A j \in DOMAIN spans : i < j => spans[i].to <= spans[j].from
    /\ \A i \in DOMAIN found :
          ClosesLine(found[i]) => i = Len(found) /\ spans[i].to = Len(line) + 1
    /\ ScanDone => found = StatementsOf(given)

\* C11 witness: a line with prose, two bare edges and a closing directive
\* whose data and comment read like edges was scanned to the end, and gave
\* three statements.
C11_Witness ==
    /\ ScanDone
    /\ given.prose # <<>>
    /\ Len(given.edges) = 2
    /\ given.closing = Closing(<<"a", "t", "t", "r">>, <<>>, <<"b">>, <<"c">>, <<"L">>,
                               <<"b">> \o Sp \o Arrow \o Sp \o <<"c">>, TRUE,
                               <<"b">> \o Sp \o Arrow \o Sp \o <<"c">>)
    /\ Len(found) = 3
    /\ ClosesLine(found[3])

====
